---------------------------- MODULE Spec2Model ----------------------------
(***************************************************************************)
(* A model of the roster segmentation and extraction pipeline of           *)
(* ss_roster2csv (parser.py): find_course_pages, make_one,                 *)
(* split_head_body, get_lonely_students, get_students, build_long_table    *)
(* and parse_header_keys.                                                  *)
(*                                                                         *)
(* A token (one line of the roster) is a sequence of one-character         *)
(* strings, so that the regular expressions of the student extractor and   *)
(* str.strip of the header extractor are computed character by character.  *)
(* A page is a sequence of tokens.  Indices returned by index() are        *)
(* Python's (zero-based); Slice(s, a, b) is Python's s[a:b].               *)
(***************************************************************************)
EXTENDS Integers, Sequences, FiniteSets

VARIABLES
    pc,       \* position of the function being run
    pages,    \* find_course_pages: the argument
    idx,      \* find_course_pages: number of pages the loop has consumed
    course,   \* find_course_pages: the course buffer (a sequence of pages)
    courses,  \* find_course_pages: the finalized raw courses
    arg,      \* argument of the other functions
    ret,      \* the value returned (or the exception raised)
    log       \* the warnings logged so far, in order

vars == <<pc, pages, idx, course, courses, arg, ret, log>>

----------------------------------------------------------------------------
(* The sentinel vocabulary.                                                *)

Email == <<"E", "m", "a", "i", "l">>
Total == <<"T", "o", "t", "a", "l">>
StudentID == <<"S", "t", "u", "d", "e", "n", "t", "I", "D">>
FullNameHdr == <<"F", "u", "l", "l", " ", "N", "a", "m", "e">>
CellHdr == <<"C", "e", "l", "l", " ", "#">>
Course == <<"C", "o", "u", "r", "s", "e">>
Semester == <<"S", "e", "m", "e", "s", "t", "e", "r">>
CourseTitle == <<"C", "o", "u", "r", "s", "e", " ", "T", "i", "t", "l", "e">>
Instructor == <<"I", "n", "s", "t", "r", "u", "c", "t", "o", "r">>
Section == <<"S", "e", "c", "t", "i", "o", "n">>
DayTime == <<"D", "a", "y", "/", "T", "i", "m", "e", ":">>

COURSE_HEADER_KEYS == {Course, Semester, CourseTitle, Instructor, Section, DayTime}
STUD_HEADER == {StudentID, FullNameHdr, CellHdr, Email}

----------------------------------------------------------------------------
(* Python list primitives.                                                 *)

\* e in s
Contains(s, e) == \E i \in 1..Len(s) : s[i] = e

\* s.index(e), zero-based, for e in s
index(s, e) ==
    (CHOOSE i \in 1..Len(s) : s[i] = e /\ \A j \in 1..(i - 1) : s[j] # e) - 1

\* s[a:b] for 0 <= a and 0 <= b <= len(s)
Slice(s, a, b) == IF b <= a THEN <<>> ELSE SubSeq(s, a + 1, b)

\* the sequences over S of length at most n
SeqsUpTo(S, n) == UNION {[1..k -> S] : k \in 0..n}

Returned(v) == [raised |-> FALSE, value |-> v]
Raised(e) == [raised |-> TRUE, value |-> e]
NoRet == [raised |-> FALSE, value |-> "none"]

----------------------------------------------------------------------------
(* make_one                                                                *)

\* faulty variant: the two pages concatenated in the wrong order
make_one_swapped(c) ==
    IF Len(c) \notin {0, 1, 2} THEN Raised("AssertionError")
    ELSE IF Len(c) = 2 THEN Returned(c[2] \o c[1])
    ELSE IF Len(c) = 1 THEN Returned(c[1])
    ELSE Returned(<<>>)

\* lines 104-113
make_one(c) ==
    IF Len(c) \notin {0, 1, 2} THEN Raised("AssertionError")
    ELSE IF Len(c) = 2 THEN Returned(c[1] \o c[2])
    ELSE IF Len(c) = 1 THEN Returned(c[1])
    ELSE Returned(<<>>)

----------------------------------------------------------------------------
(* find_course_pages                                                       *)

x == <<"x">>

\* The pages the segmenter is run on: every page of one or two tokens over
\* Email, Total and an ordinary line, and the longer pages in which "Total"
\* and "Email" occur in either order or "Email" occurs twice.  read_roster
\* (io_utils.py line 78) never yields an empty page.
PageSet ==
    { <<x>>, <<Email>>, <<Total>>,
      <<x, x>>, <<x, Email>>, <<x, Total>>, <<Email, x>>, <<Email, Email>>,
      <<Email, Total>>, <<Total, x>>, <<Total, Email>>, <<Total, Total>>,
      <<Total, Email, x>>, <<x, Email, Total>>, <<Email, x, Total>>,
      <<Email, x, Email, x>> }

MaxPages == 3

\* faulty variant: page[sidx:], which keeps the "Email" token
strip_keeping_email(page) == Slice(page, index(page, Email), Len(page))

\* lines 79-80: page[sidx + 1:]
strip_up_to_email(page) == Slice(page, index(page, Email) + 1, Len(page))

\* One iteration of the for loop of lines 66-88.
LoopIteration ==
    /\ pc = "loop"
    /\ idx < Len(pages)
    /\ LET raw == pages[idx + 1]
           continuation == course # <<>>
           stripped == continuation /\ Contains(raw, Email)
           page == IF stripped THEN strip_up_to_email(raw) ELSE raw
           empty_page == stripped /\ Len(page) = 0
           appended == Append(course, page)
       IN  /\ log' = IF continuation /\ ~Contains(raw, Email)
                     THEN Append(log, [warning |-> "Page does not contain 'Email'",
                                       at |-> idx])
                     ELSE log
           /\ IF Contains(page, Total) \/ empty_page
              THEN /\ courses' = Append(courses, appended)
                   /\ course' = <<>>
              ELSE /\ course' = appended
                   /\ UNCHANGED courses
    /\ idx' = idx + 1
    /\ UNCHANGED <<pc, pages, arg, ret>>

\* Line 91: the loop is over, every finalized course goes through make_one;
\* the course buffer is abandoned.
ReturnCourses ==
    /\ pc = "loop"
    /\ idx = Len(pages)
    /\ pc' = "done"
    /\ ret' = IF \E i \in 1..Len(courses) : make_one(courses[i]).raised
              THEN Raised("AssertionError")
              ELSE Returned([i \in 1..Len(courses) |-> make_one(courses[i]).value])
    /\ UNCHANGED <<pages, idx, course, courses, arg, log>>

InitSeg ==
    /\ pc = "loop"
    /\ pages \in SeqsUpTo(PageSet, MaxPages)
    /\ idx = 0
    /\ course = <<>>
    /\ courses = <<>>
    /\ arg = <<>>
    /\ ret = NoRet
    /\ log = <<>>

NextSeg == LoopIteration \/ ReturnCourses

SpecSeg == InitSeg /\ [][NextSeg]_vars

(* Where the consumed pages are: the finalized courses, then the buffer.   *)

RECURSIVE PageCount(_)
PageCount(cs) == IF cs = <<>> THEN 0 ELSE Len(Head(cs)) + PageCount(Tail(cs))

RECURSIVE Concat(_)
Concat(cs) == IF cs = <<>> THEN <<>> ELSE Head(cs) \o Concat(Tail(cs))

\* the pages as they were appended, in input order (page k is Stored[k])
Stored == Concat(courses) \o course

\* the input positions of the first and of the last page of each course
StartsOf == {PageCount(SubSeq(courses, 1, j)) + 1 : j \in 0..Len(courses)}
EndsOf == {PageCount(SubSeq(courses, 1, j)) : j \in 1..Len(courses)}

\* page k was appended to a non-empty buffer
IsContinuation(k) == k \notin StartsOf

\* t is s without everything up to and including its first "Email"
IsSuffixAfterFirstEmail(t, s) ==
    \E n \in 1..Len(s) :
        /\ s[n] = Email
        /\ \A j \in 1..(n - 1) : s[j] # Email
        /\ Len(t) = Len(s) - n
        /\ \A j \in 1..Len(t) : t[j] = s[n + j]

ContinuationsStripped ==
    \A k \in 1..idx :
        IF IsContinuation(k) /\ Contains(pages[k], Email)
        THEN IsSuffixAfterFirstEmail(Stored[k], pages[k])
        ELSE Stored[k] = pages[k]

\* C1: every course buffer handed to make_one holds 1 or 2 pages, so the
\* assertion of make_one never fails on the segmenter's output.
C1_CourseHasOneOrTwoPages ==
    /\ \A i \in 1..Len(courses) : Len(courses[i]) \in {1, 2}
    /\ pc = "done" => ~ret.raised

\* C2: when find_course_pages returns, every input page is in one of the
\* returned courses or a warning has been logged.
C2_NoPageDroppedSilently ==
    (pc = "done" /\ ~ret.raised) =>
        (PageCount(courses) = Len(pages) \/ log # <<>>)

----------------------------------------------------------------------------
(* make_one on its own: any number of pages up to MaxMergePages.           *)

MaxMergePages == 3

CallMakeOne ==
    /\ pc = "call"
    /\ pc' = "done"
    /\ ret' = make_one(arg)
    /\ UNCHANGED <<pages, idx, course, courses, arg, log>>

InitMerge ==
    /\ pc = "call"
    /\ arg \in SeqsUpTo(PageSet \cup {<<>>}, MaxMergePages)
    /\ pages = <<>>
    /\ idx = 0
    /\ course = <<>>
    /\ courses = <<>>
    /\ ret = NoRet
    /\ log = <<>>

NextMerge == CallMakeOne

SpecMerge == InitMerge /\ [][NextMerge]_vars

\* C4: make_one returns the empty sequence for zero pages, the page itself
\* for one page, the first page followed by the second for two pages, and
\* fails with an assertion error for any other page count.
C4_MakeOne ==
    pc = "done" =>
        CASE Len(arg) = 0 -> ~ret.raised /\ ret.value = <<>>
          [] Len(arg) = 1 -> ~ret.raised /\ ret.value = arg[1]
          [] Len(arg) = 2 ->
                /\ ~ret.raised
                /\ Len(ret.value) = Len(arg[1]) + Len(arg[2])
                /\ \A i \in 1..Len(arg[1]) : ret.value[i] = arg[1][i]
                /\ \A i \in 1..Len(arg[2]) : ret.value[Len(arg[1]) + i] = arg[2][i]
          [] OTHER -> ret.raised /\ ret.value = "AssertionError"

\* C4 witness: two different non-empty pages have been merged.
C4_Witness ==
    /\ pc = "done"
    /\ Len(arg) = 2
    /\ arg[1] # <<>> /\ arg[2] # <<>>
    /\ arg[1] \o arg[2] # arg[2] \o arg[1]
    /\ ~ret.raised

----------------------------------------------------------------------------
(* split_head_body                                                         *)

MaxCourseLen == 6

\* the tokens of a flattened course: the three sentinels and an ordinary line
CourseTokens == {StudentID, Email, Total, x}

\* line 166
head_eidx(c) == index(c, StudentID)

\* line 172
stud_sidx(c) == index(c, Email)

\* faulty variant: the body always runs to the end of the course
stud_eidx_ignoring_total(c) == Len(c)

\* lines 173-176: course.index("Total"), or len(course) on ValueError
stud_eidx(c) == IF Contains(c, Total) THEN index(c, Total) ELSE Len(c)

\* The (header, body) pair returned and the warnings logged.
split_head_body(c) ==
    IF ~Contains(c, StudentID)
    THEN [header |-> c, body |-> <<>>,
          warnings |-> <<[warning |-> "'StudentID' not found in course tokens"]>>]
    ELSE IF ~Contains(c, Email)
    THEN [header |-> Slice(c, 0, head_eidx(c)), body |-> <<>>,
          warnings |-> <<[warning |-> "'Email' not found after 'StudentID' in course tokens"]>>]
    ELSE [header |-> Slice(c, 0, head_eidx(c)),
          body |-> Slice(c, stud_sidx(c) + 1, stud_eidx(c)),
          warnings |-> <<>>]

CallSplit ==
    /\ pc = "call"
    /\ pc' = "done"
    /\ ret' = Returned(<<split_head_body(arg).header, split_head_body(arg).body>>)
    /\ log' = log \o split_head_body(arg).warnings
    /\ UNCHANGED <<pages, idx, course, courses, arg>>

InitSplit ==
    /\ pc = "call"
    /\ arg \in SeqsUpTo(CourseTokens, MaxCourseLen)
    /\ pages = <<>>
    /\ idx = 0
    /\ course = <<>>
    /\ courses = <<>>
    /\ ret = NoRet
    /\ log = <<>>

NextSplit == CallSplit

SpecSplit == InitSplit /\ [][NextSplit]_vars

\* the position (from 1) of the first e in s, Len(s) + 1 when there is none
FirstPos(s, e) ==
    IF \E i \in 1..Len(s) : s[i] = e
    THEN CHOOSE i \in 1..Len(s) : s[i] = e /\ \A j \in 1..(i - 1) : s[j] # e
    ELSE Len(s) + 1

\* the positions of the course that the returned header and body are cut from
HeaderPositions == 1..Len(ret.value[1])
BodyPositions ==
    IF ret.value[2] = <<>> THEN {}
    ELSE {p \in 1..Len(arg) : FirstPos(arg, Email) < p /\ p < FirstPos(arg, Total)}

\* C5: with "StudentID" and "Email" in the course, the header is exactly the
\* tokens before the first "StudentID" and the body exactly the tokens at
\* the positions strictly between the first "Email" and the first "Total"
\* (the end of the course when there is no "Total"); without "StudentID"
\* the whole course is the header and the body is empty.
C5_SplitHeadBody ==
    pc = "done" =>
        LET header == ret.value[1]
            body == ret.value[2]
            e == FirstPos(arg, Email)
            t == FirstPos(arg, Total)
        IN  /\ ~ret.raised
            /\ ~Contains(arg, StudentID) => header = arg /\ body = <<>>
            /\ (Contains(arg, StudentID) /\ Contains(arg, Email)) =>
                  /\ Len(header) = FirstPos(arg, StudentID) - 1
                  /\ \A i \in 1..Len(header) : header[i] = arg[i]
                  /\ Len(body) = Cardinality({p \in 1..Len(arg) : e < p /\ p < t})
                  /\ \A i \in 1..Len(body) : body[i] = arg[e + i]
                  /\ ~Contains(arg, Total) =>
                        (Len(body) = Len(arg) - e /\ e + Len(body) = Len(arg))

\* C5 witness: a course [.., "StudentID", .., "Email", b1, .., "Total", ..]
\* has been split into a non-empty header and a non-empty body.
C5_Witness ==
    /\ pc = "done"
    /\ Contains(arg, StudentID) /\ Contains(arg, Email) /\ Contains(arg, Total)
    /\ FirstPos(arg, StudentID) < FirstPos(arg, Email)
    /\ ret.value[1] # <<>>
    /\ ret.value[2] # <<>>
    /\ FirstPos(arg, Total) < Len(arg)

\* C9: header and body are disjoint slices, the header entirely before the
\* body: the "Email" the body starts after is at or after the first
\* "StudentID", and no position of the course is in both.
C9_HeaderBeforeBody ==
    pc = "done" =>
        /\ (Contains(arg, StudentID) /\ Contains(arg, Email)) =>
              FirstPos(arg, StudentID) <= FirstPos(arg, Email)
        /\ HeaderPositions \cap BodyPositions = {}
        /\ \A h \in HeaderPositions : \A b \in BodyPositions : h < b

----------------------------------------------------------------------------
(* The student extractor: get_lonely_students and get_students.            *)
(* A text is a sequence of characters; a position p (from 1) is that of    *)
(* the next character to read, Len(s) + 1 at the end of the text.          *)

Digits == <<"0", "1", "2", "3", "4", "5", "6", "7", "8", "9">>

IsDigit(c) == \E i \in 1..Len(Digits) : Digits[i] = c       \* \d
IsSpace(c) == c = " "                                       \* \s
IsNameChar(c) == ~IsDigit(c) /\ c # "+"                     \* [^\d+]

DigitValue(c) == (CHOOSE i \in 1..Len(Digits) : Digits[i] = c) - 1

\* int(elt) for a string of digits
RECURSIVE IntOf(_)
IntOf(ds) ==
    IF ds = <<>> THEN 0
    ELSE 10 * IntOf(SubSeq(ds, 1, Len(ds) - 1)) + DigitValue(ds[Len(ds)])

\* is_number: lines 313-320.  int() and float() both fail on a string that
\* is not a number; line 232 only passes it the digits matched by rid.
is_number(elt) ==
    IF elt # <<>> /\ \A i \in 1..Len(elt) : IsDigit(elt[i])
    THEN IntOf(elt)
    ELSE "None"

\* " ".join(body)
RECURSIVE Join(_)
Join(body) ==
    IF body = <<>> THEN <<>>
    ELSE IF Len(body) = 1 THEN body[1]
    ELSE body[1] \o <<" ">> \o Join(Tail(body))

\* \s* at p: the position after the longest run of spaces starting at p
SpacesEnd(s, p) ==
    CHOOSE q \in p..(Len(s) + 1) :
        /\ \A j \in p..(q - 1) : IsSpace(s[j])
        /\ (q = Len(s) + 1 \/ ~IsSpace(s[q]))

\* [^\d+]* at p: the position after the longest run of name characters
NameEnd(s, p) ==
    CHOOSE q \in p..(Len(s) + 1) :
        /\ \A j \in p..(q - 1) : IsNameChar(s[j])
        /\ (q = Len(s) + 1 \/ ~IsNameChar(s[q]))

\* (?<!\d) at p
NotAfterDigit(s, p) == p = 1 \/ ~IsDigit(s[p - 1])

\* \d{n} at p
DigitsAt(s, p, n) == p + n - 1 <= Len(s) /\ \A j \in p..(p + n - 1) : IsDigit(s[j])

IdDigits == 5
RidMaxDigits == 2
LonelyLimit == 5

NoMatch == [ok |-> FALSE]

\* \s+([^\d+]+) at p.  \s+ is greedy; when no name character follows the
\* spaces it gives one space back, which the name group then takes.
MatchSpacesName(s, p) ==
    LET q == SpacesEnd(s, p)
    IN  IF q = p THEN NoMatch
        ELSE IF q <= Len(s) /\ IsNameChar(s[q])
        THEN [ok |-> TRUE, start |-> q, end |-> NameEnd(s, q)]
        ELSE IF q - p >= 2
        THEN [ok |-> TRUE, start |-> q - 1, end |-> q]
        ELSE NoMatch

\* ((?:TU-)?(?<!\d)\d{5}) at p: the position after it, 0 when it fails
TuidEnd(s, p) ==
    LET prefixed == p + 2 <= Len(s) /\ s[p] = "T" /\ s[p + 1] = "U" /\ s[p + 2] = "-"
        five(c) == NotAfterDigit(s, c) /\ DigitsAt(s, c, IdDigits)
    IN  IF prefixed /\ five(p + 3) THEN p + 3 + IdDigits
        ELSE IF five(p) THEN p + IdDigits
        ELSE 0

\* {tuid}\s+{name} at p
MatchTuidName(s, p) ==
    LET t == TuidEnd(s, p)
        name == MatchSpacesName(s, t)
    IN  IF t = 0 THEN NoMatch
        ELSE IF ~name.ok THEN NoMatch
        ELSE [ok |-> TRUE,
              tu_id |-> SubSeq(s, p, t - 1),
              stud_name |-> SubSeq(s, name.start, name.end - 1),
              end |-> name.end]

\* ((?<!\d)\d{1,2}) at p followed by \s+{tuid}\s+{name}, n digits taken
RidThenRest(s, p, n) ==
    IF ~(NotAfterDigit(s, p) /\ DigitsAt(s, p, n)) THEN NoMatch
    ELSE LET b == SpacesEnd(s, p + n)
             rest == MatchTuidName(s, b)
         IN  IF b = p + n \/ ~rest.ok THEN NoMatch
             ELSE [ok |-> TRUE,
                   lineno |-> SubSeq(s, p, p + n - 1),
                   tu_id |-> rest.tu_id,
                   stud_name |-> rest.stud_name,
                   end |-> rest.end]

RECURSIVE RidLongestFirst(_, _, _)
RidLongestFirst(s, p, n) ==
    IF n = 0 THEN NoMatch
    ELSE LET m == RidThenRest(s, p, n)
         IN  IF m.ok THEN m ELSE RidLongestFirst(s, p, n - 1)

\* student_pat of line 222 matched at p.  The leading \s* takes every
\* space: with fewer, rid would have to start on a space.
MatchStudentAt(s, p) == RidLongestFirst(s, SpacesEnd(s, p), RidMaxDigits)

\* re.finditer(student_pat, s), scanning from pos: the matches, in order
RECURSIVE finditer(_, _)
finditer(s, pos) ==
    LET starts == {p \in pos..Len(s) : MatchStudentAt(s, p).ok}
    IN  IF starts = {} THEN <<>>
        ELSE LET first == CHOOSE p \in starts : \A q \in starts : p <= q
                 m == MatchStudentAt(s, first)
             IN  <<m>> \o finditer(s, m.end)

\* re.match(student_pat, student) of line 199
MatchLonely(s) == MatchTuidName(s, SpacesEnd(s, 1))

\* get_lonely_students
get_lonely_students(body) ==
    IF body = <<>> THEN [ret |-> Returned(<<>>), warnings |-> <<>>]
    ELSE IF ~(Len(body) < LonelyLimit)
    THEN [ret |-> Raised("AssertionError"), warnings |-> <<>>]
    ELSE LET stud_match == MatchLonely(Join(body))
         IN  IF ~stud_match.ok
             THEN [ret |-> Returned(<<>>),
                   warnings |-> <<[warning |-> "Failed to parse single-student body"]>>]
             ELSE [ret |-> Returned(<< <<1, stud_match.tu_id, stud_match.stud_name>> >>),
                   warnings |-> <<>>]

\* The for loop of lines 228-243 from the k-th match on.
RECURSIVE students_loop(_, _, _, _, _)
students_loop(matches, k, students, last_lineno, warnings) ==
    IF k > Len(matches) THEN [ret |-> Returned(students), warnings |-> warnings]
    ELSE LET m == matches[k]
             cur_lineno == is_number(m.lineno)
             warn == students # <<>> /\ last_lineno # 1
                        /\ cur_lineno # last_lineno + 1
         IN  students_loop(
                 matches, k + 1,
                 Append(students, <<m.lineno, m.tu_id, m.stud_name>>),
                 IF students # <<>> THEN cur_lineno ELSE 1,
                 IF warn
                 THEN Append(warnings,
                             [warning |-> "Non-consecutive line number found",
                              current |-> cur_lineno, previous |-> last_lineno])
                 ELSE warnings)

\* get_students
get_students(body) == students_loop(finditer(Join(body), 1), 1, <<>>, 1, <<>>)

\* The bodies: tokens are a line number, an ID, a name, a "+", and a whole
\* roster row on one line.
One == <<"1">>
Three == <<"3">>
AnId == <<"1", "2", "3", "4", "5">>
AName == <<"A", "l">>
Plus == <<"+">>
ARow == <<"4", " ", "T", "U", "-", "1", "2", "3", "4", "6", " ", "B", "o">>
BodyTokens == {One, Three, AnId, AName, Plus, ARow}

MaxBody == 5

\* get_courses_info, lines 140-141: a body of fewer than 5 tokens
CallLonelyStudents ==
    /\ pc = "call"
    /\ Len(arg) < LonelyLimit
    /\ pc' = "done"
    /\ LET r == get_lonely_students(arg)
       IN  ret' = r.ret /\ log' = log \o r.warnings
    /\ UNCHANGED <<pages, idx, course, courses, arg>>

\* get_courses_info, lines 142-143
CallStudents ==
    /\ pc = "call"
    /\ ~(Len(arg) < LonelyLimit)
    /\ pc' = "done"
    /\ LET r == get_students(arg)
       IN  ret' = r.ret /\ log' = log \o r.warnings
    /\ UNCHANGED <<pages, idx, course, courses, arg>>

InitStud ==
    /\ pc = "call"
    /\ arg \in SeqsUpTo(BodyTokens, MaxBody)
    /\ pages = <<>>
    /\ idx = 0
    /\ course = <<>>
    /\ courses = <<>>
    /\ ret = NoRet
    /\ log = <<>>

NextStud == CallLonelyStudents \/ CallStudents

SpecStud == InitStud /\ [][NextStud]_vars

\* the student pattern of the regime the body falls in matches nothing
NoStudentMatch ==
    IF Len(arg) < LonelyLimit
    THEN ~MatchLonely(Join(arg)).ok
    ELSE finditer(Join(arg), 1) = <<>>

\* C6: when the student pattern matches nothing in a non-empty body, the
\* extractor returns no students, logs a warning and does not raise, in the
\* single-student and in the multi-student regime.
C6_NoMatchWarns ==
    (pc = "done" /\ arg # <<>> /\ NoStudentMatch) =>
        /\ ~ret.raised
        /\ ret.value = <<>>
        /\ Len(log) >= 1

\* the matches after the first whose line number is not the previous
\* student's printed line number plus one
NonConsecutive(ms) ==
    {i \in 2..Len(ms) : IntOf(ms[i].lineno) # IntOf(ms[i - 1].lineno) + 1}

\* C8: get_students emits every match, in document order, and logs a
\* warning for every match after the first whose line number is not the
\* previous student's line number plus one.
C8_NonConsecutiveWarns ==
    (pc = "done" /\ ~(Len(arg) < LonelyLimit)) =>
        LET ms == finditer(Join(arg), 1)
        IN  /\ ~ret.raised
            /\ ret.value = [i \in 1..Len(ms) |->
                               <<ms[i].lineno, ms[i].tu_id, ms[i].stud_name>>]
            /\ Len(log) >= Cardinality(NonConsecutive(ms))

----------------------------------------------------------------------------
(* parse_header_keys                                                       *)
(* A dict is a function from its keys (tokens) to its values.              *)

EmptyDict == [k \in {} |-> <<>>]

\* d[k] = v
Put(d, k, v) == [j \in DOMAIN d \cup {k} |-> IF j = k THEN v ELSE d[j]]

StripChars == {":", " "}

\* faulty variant: t.lstrip(": "), which keeps the trailing ':' and ' '
lstrip_only(t) ==
    IF \A i \in 1..Len(t) : t[i] \in StripChars THEN <<>>
    ELSE SubSeq(t, CHOOSE a \in 1..Len(t) :
                       t[a] \notin StripChars /\ \A j \in 1..(a - 1) : t[j] \in StripChars,
                Len(t))

\* t.strip(": "): the leading and the trailing ':' and ' ' are removed
strip(t) ==
    IF \A i \in 1..Len(t) : t[i] \in StripChars THEN <<>>
    ELSE LET a == CHOOSE a \in 1..Len(t) :
                      t[a] \notin StripChars /\ \A j \in 1..(a - 1) : t[j] \in StripChars
             b == CHOOSE b \in 1..Len(t) :
                      t[b] \notin StripChars /\ \A j \in (b + 1)..Len(t) : t[j] \in StripChars
         IN  SubSeq(t, a, b)

\* The while loop of lines 286-303 from token i (from 1) on.
RECURSIVE header_loop(_, _, _, _)
header_loop(tokens, i, result, used_keys) ==
    IF ~(i <= Len(tokens)) THEN result
    ELSE LET elt == tokens[i]
         IN  IF elt \in STUD_HEADER THEN result
             ELSE IF elt \in COURSE_HEADER_KEYS /\ elt \notin used_keys
             THEN IF i + 1 <= Len(tokens)
                     /\ tokens[i + 1] \notin COURSE_HEADER_KEYS
                     /\ tokens[i + 1] \notin STUD_HEADER
                  THEN header_loop(tokens, i + 2,
                                   Put(result, elt, strip(tokens[i + 1])),
                                   used_keys \cup {elt})
                  ELSE header_loop(tokens, i + 1, Put(result, elt, <<>>),
                                   used_keys \cup {elt})
             ELSE header_loop(tokens, i + 1, result, used_keys)

parse_header_keys(tokens) == header_loop(tokens, 1, EmptyDict, {})

\* header tokens: two field names, a column header, and values without and
\* with the characters strip removes
Plain == <<"M", "1">>
Padded == <<":", " ", "M", " ", "1", ":">>
Colon == <<":">>
HeaderTokens == {Course, Instructor, DayTime, Email, Plain, Padded, Colon}

MaxHeaderLen == 5

CallParseHeaderKeys ==
    /\ pc = "call"
    /\ pc' = "done"
    /\ ret' = Returned(parse_header_keys(arg))
    /\ UNCHANGED <<pages, idx, course, courses, arg, log>>

InitHdr ==
    /\ pc = "call"
    /\ arg \in SeqsUpTo(HeaderTokens, MaxHeaderLen)
    /\ pages = <<>>
    /\ idx = 0
    /\ course = <<>>
    /\ courses = <<>>
    /\ ret = NoRet
    /\ log = <<>>

NextHdr == CallParseHeaderKeys

SpecHdr == InitHdr /\ [][NextHdr]_vars

\* where the scan stops: the first student-table column header
StopPos(tokens) ==
    IF \E i \in 1..Len(tokens) : tokens[i] \in STUD_HEADER
    THEN CHOOSE i \in 1..Len(tokens) :
             tokens[i] \in STUD_HEADER /\ \A j \in 1..(i - 1) : tokens[j] \notin STUD_HEADER
    ELSE Len(tokens) + 1

\* the token after the first k has a value to give
HasValue(tokens, k) ==
    /\ FirstPos(tokens, k) + 1 <= Len(tokens)
    /\ tokens[FirstPos(tokens, k) + 1] \notin COURSE_HEADER_KEYS \cup STUD_HEADER

\* v is t without its leading and trailing ':' and ' '
IsStripped(v, t) ==
    \E a \in 0..Len(t) :
        /\ a + Len(v) <= Len(t)
        /\ \A j \in 1..Len(v) : v[j] = t[a + j]
        /\ \A j \in 1..a : t[j] \in StripChars
        /\ \A j \in (a + Len(v) + 1)..Len(t) : t[j] \in StripChars
        /\ v # <<>> => (v[1] \notin StripChars /\ v[Len(v)] \notin StripChars)

\* the keys of the result are the recognized field names that occur before
\* the first student-table column header
KeysAreFieldsBeforeStop ==
    /\ DOMAIN ret.value \subseteq COURSE_HEADER_KEYS
    /\ \A k \in COURSE_HEADER_KEYS :
          k \in DOMAIN ret.value <=> FirstPos(arg, k) < StopPos(arg)

----------------------------------------------------------------------------
(* build_long_table                                                        *)
(* A row is a dict: the header fields, then crsid, LineNo, StudentID and   *)
(* FullName.  The DataFrame is the sequence of its rows.                   *)

crsid == <<"c", "r", "s", "i", "d">>
LineNo == <<"L", "i", "n", "e", "N", "o">>
FullName == <<"F", "u", "l", "l", "N", "a", "m", "e">>

ChunkFields == 3

\* faulty variant: course ids counted from 1
with_crsid_from_one(hdr_dict, i) == Put(hdr_dict, crsid, i)

\* hdr_dict["crsid"] = i of line 259, for the i-th course counted from 1
with_crsid(hdr_dict, i) == Put(hdr_dict, crsid, i - 1)

\* lines 268-271
make_row(hdr_dict, chunk) ==
    Put(Put(Put(hdr_dict, LineNo, chunk[1]), StudentID, chunk[2]), FullName, chunk[3])

\* The inner for loop of lines 261-272 from chunk k on.
RECURSIVE chunk_loop(_, _, _, _)
chunk_loop(hdr_dict, student_chunks, k, out) ==
    IF k > Len(student_chunks) THEN out
    ELSE IF Len(student_chunks[k]) # ChunkFields
    THEN chunk_loop(hdr_dict, student_chunks, k + 1,
                    [rows |-> out.rows,
                     warnings |-> Append(out.warnings,
                                         [warning |-> "Unexpected chunk size"])])
    ELSE chunk_loop(hdr_dict, student_chunks, k + 1,
                    [rows |-> Append(out.rows, make_row(hdr_dict, student_chunks[k])),
                     warnings |-> out.warnings])

\* The outer for loop of lines 257-272 from course i (from 1) on.
RECURSIVE table_loop(_, _, _)
table_loop(crs, i, out) ==
    IF i > Len(crs) THEN out
    ELSE table_loop(crs, i + 1,
                    chunk_loop(with_crsid(parse_header_keys(crs[i][1]), i),
                               crs[i][2], 1, out))

build_long_table(crs) == table_loop(crs, 1, [rows |-> <<>>, warnings |-> <<>>])

\* course records: header tokens and student chunks, one chunk being short
Stud1 == <<One, AnId, AName>>
Stud2 == <<Three, ARow, Padded>>
Short == <<One, AnId>>
ChunkSet == {Stud1, Stud2, Short}
HeaderSet == {<<>>, <<Course, Padded, Email>>}

MaxStudents == 2
MaxCourses == 2

CallBuildLongTable ==
    /\ pc = "call"
    /\ pc' = "done"
    /\ LET r == build_long_table(arg)
       IN  ret' = Returned(r.rows) /\ log' = log \o r.warnings
    /\ UNCHANGED <<pages, idx, course, courses, arg>>

InitTable ==
    /\ pc = "call"
    /\ arg \in SeqsUpTo(HeaderSet \X SeqsUpTo(ChunkSet, MaxStudents), MaxCourses)
    /\ pages = <<>>
    /\ idx = 0
    /\ course = <<>>
    /\ courses = <<>>
    /\ ret = NoRet
    /\ log = <<>>

NextTable == CallBuildLongTable

SpecTable == InitTable /\ [][NextTable]_vars

\* the 3-field students of course record i, in order
HasThreeFields(chunk) == Len(chunk) = 3
Students3(i) == SelectSeq(arg[i][2], HasThreeFields)

\* the number of rows that the course records before i contribute
RECURSIVE RowsBefore(_)
RowsBefore(i) == IF i <= 1 THEN 0 ELSE RowsBefore(i - 1) + Len(Students3(i - 1))

\* C7: one row per 3-field student, in course order and then student order;
\* the rows of the course at zero-based position c carry crsid = c, so
\* crsid is non-decreasing and a course without students has no row.
C7_OneRowPerStudent ==
    pc = "done" =>
        LET rows == ret.value
        IN  /\ ~ret.raised
            /\ Len(rows) = RowsBefore(Len(arg) + 1)
            /\ \A i \in 1..Len(arg) : \A k \in 1..Len(Students3(i)) :
                  LET row == rows[RowsBefore(i) + k]
                  IN  /\ row[crsid] = i - 1
                      /\ row[LineNo] = Students3(i)[k][1]
                      /\ row[StudentID] = Students3(i)[k][2]
                      /\ row[FullName] = Students3(i)[k][3]
            /\ \A r \in 1..(Len(rows) - 1) : rows[r][crsid] <= rows[r + 1][crsid]
            /\ \A r \in 1..Len(rows) :
                  /\ rows[r][crsid] \in 0..(Len(arg) - 1)
                  /\ Students3(rows[r][crsid] + 1) # <<>>

\* C7 witness: the first course has only a short chunk and no row, the
\* second has two different students; both rows carry crsid 1.
C7_Witness ==
    /\ pc = "done"
    /\ Len(arg) = 2
    /\ arg[1][2] = <<Short>>
    /\ arg[2][2] = <<Stud2, Stud1>>
    /\ Len(ret.value) = 2
    /\ ret.value[1][crsid] = 1
    /\ ret.value[1][LineNo] = Three
    /\ ret.value[2][LineNo] = One
    /\ Len(log) = 1

=============================================================================
